---- MODULE Spec2Model ----
(***************************************************************************)
(* MG6 MQTT -> MongoDB backend (src/index.js, second revision, lines       *)
(* 118-313): configuration validation, sink connection, MQTT subscription, *)
(* the per-topic throttled "message" handler and the shutdown handler.     *)
(*                                                                         *)
(* The Node.js event loop runs one callback at a time to completion; a     *)
(* handler gives up control only at an await.  `cur` is the handler        *)
(* invocation that currently owns the call stack (0 = stack empty).        *)
(***************************************************************************)
EXTENDS Integers, Sequences, FiniteSets

\* ------------------------------------------------------------------ bounds
MaxMsgs == 2            \* handler invocations per run
MaxTicks == 5           \* clock advances per run

\* --------------------------------------------------------------- constants
MsPerSec == 1000        \* minIntervalSec * 1000
HalfSec == MsPerSec \div 2          \* granularity of the modelled clock

Topics == {"sensor/1", "sensor/2"}
RawBodies == {"{\"temp\":20}", "not-json"}
IntervalInputs == {"", "abc", "Infinity", "-1", "0", "1", "2"}
Absent == -1            \* Map.get of a missing key (undefined)

VARIABLES env, phase, exitCode, collection, mqtt, subscribed, closing,
          lastSavedByKey, clock, inv, cur, mongo, inserts

vars == <<env, phase, exitCode, collection, mqtt, subscribed, closing,
          lastSavedByKey, clock, inv, cur, mongo, inserts>>

\* ------------------------------------------------------------ pure helpers
\* Number(MIN_SAVE_INTERVAL_SEC): fin = Number.isFinite of the result
Number(s) ==
    CASE s = "-1" -> [fin |-> TRUE, val |-> -1]
      [] s = "0" -> [fin |-> TRUE, val |-> 0]
      [] s = "1" -> [fin |-> TRUE, val |-> 1]
      [] s = "2" -> [fin |-> TRUE, val |-> 2]
      [] s = "" -> [fin |-> TRUE, val |-> 0]
      [] OTHER -> [fin |-> FALSE, val |-> 0]

\* for (const v of requiredVars) if (!process.env[v]) exit(1)
MissingVar(e) == e.othersMissing \/ e.interval = ""

\* !Number.isFinite(minIntervalSec) || minIntervalSec < 0
BadInterval(e) == ~Number(e.interval).fin \/ Number(e.interval).val < 0

minIntervalSec == Number(env.interval).val
minIntervalMs == minIntervalSec * MsPerSec

\* JSON.parse(raw) succeeds
ParsesAsJSON(raw) == raw = "{\"temp\":20}"

\* const throttleKey = topic
ThrottleKeySingle(topic) == "sensor/1"
ThrottleKey(topic) == topic

\* lastSavedByKey.get(throttleKey) || 0
LastOrZero(m, k) == IF m[k] = Absent \/ m[k] = 0 THEN 0 ELSE m[k]

\* if (now - last < minIntervalMs) return
ThrottledInclusive(now, last, minMs) == now - last <= minMs
Throttled(now, last, minMs) == now - last < minMs

Alive == phase # "exited"

Invocation == [topic : Topics, raw : RawBodies, now : Int, last : Int,
               pc : {"gate", "decode", "commit", "await", "done"},
               outcome : {"none", "dropped-throttled", "dropped-malformed",
                          "persisted", "persist-failed"},
               log : {"none", "invalid-json", "saved", "error"},
               committed : BOOLEAN, wrote : BOOLEAN]

TypeOK ==
    /\ env \in [othersMissing : BOOLEAN, interval : IntervalInputs]
    /\ phase \in {"boot", "starting", "running", "exited"}
    /\ exitCode \in {-1, 0, 1}
    /\ collection \in BOOLEAN
    /\ mqtt \in {"none", "connecting", "connected"}
    /\ subscribed \in BOOLEAN
    /\ closing \in BOOLEAN
    /\ lastSavedByKey \in [Topics -> Int]
    /\ clock \in 0..(MaxTicks * HalfSec)
    /\ inv \in Seq(Invocation)
    /\ cur \in 0..MaxMsgs
    /\ mongo \in {"idle", "connecting", "connected", "failed"}
    /\ inserts \in [Topics -> Nat]

\* -------------------------------------------------------------------- Init
Init ==
    /\ env \in [othersMissing : BOOLEAN, interval : IntervalInputs]
    /\ phase = "boot"
    /\ exitCode = -1
    /\ collection = FALSE
    /\ mqtt = "none"
    /\ subscribed = FALSE
    /\ closing = FALSE
    /\ lastSavedByKey = [k \in Topics |-> Absent]
    /\ clock = 0
    /\ inv = <<>>
    /\ cur = 0
    /\ mongo = "idle"
    /\ inserts = [k \in Topics |-> 0]

\* ----------------------------------------------------------------- actions
\* Date.now() moves forward between reads (never backwards); a handler reads
\* it once, in its first statement, so time passing while a handler owns the
\* stack is not observable and the clock is advanced between callbacks
Tick ==
    /\ Alive
    /\ cur = 0
    /\ clock < MaxTicks * HalfSec
    /\ clock' = clock + HalfSec
    /\ UNCHANGED <<mongo, inserts, env, phase, exitCode, collection, mqtt,
                   subscribed, closing, lastSavedByKey, inv, cur>>

\* variant: connectMQTT() is called without awaiting connectMongo()
BootConnectsTransport ==
    /\ phase = "boot"
    /\ IF MissingVar(env) \/ BadInterval(env)
         THEN /\ phase' = "exited" /\ exitCode' = 1
              /\ mongo' = mongo /\ mqtt' = mqtt
         ELSE /\ phase' = "starting" /\ exitCode' = exitCode
              /\ mongo' = "connecting" /\ mqtt' = "connecting"
    /\ UNCHANGED <<inserts, env, collection, subscribed, closing,
                   lastSavedByKey, clock, inv, cur>>

\* variant: the interval is not validated (the first revision,
\* src/index.js:34-43)
BootNoIntervalCheck ==
    /\ phase = "boot"
    /\ IF MissingVar(env)
         THEN phase' = "exited" /\ exitCode' = 1 /\ mongo' = mongo
         ELSE phase' = "starting" /\ exitCode' = exitCode
              /\ mongo' = "connecting"
    /\ UNCHANGED <<inserts, env, collection, mqtt, subscribed, closing,
                   lastSavedByKey, clock, inv, cur>>

\* module top level: validation, signal handlers, start of the IIFE up to
\* `await mongoClient.connect()`
Boot ==
    /\ phase = "boot"
    /\ IF MissingVar(env) \/ BadInterval(env)
         THEN phase' = "exited" /\ exitCode' = 1 /\ mongo' = mongo
         ELSE phase' = "starting" /\ exitCode' = exitCode
              /\ mongo' = "connecting"
    /\ UNCHANGED <<inserts, env, collection, mqtt, subscribed, closing,
                   lastSavedByKey, clock, inv, cur>>

\* mongoClient.connect() resolves; connectMongo sets collection, then the
\* IIFE calls connectMQTT()
MongoConnected ==
    /\ phase = "starting"
    /\ cur = 0
    /\ mongo' = "connected"
    /\ collection' = TRUE
    /\ mqtt' = "connecting"
    /\ phase' = "running"
    /\ UNCHANGED <<inserts, env, exitCode, subscribed, closing,
                   lastSavedByKey, clock, inv, cur>>

\* variant: the catch logs the failure and the startup goes on to
\* connectMQTT()
MongoConnectFailedContinues ==
    /\ phase = "starting"
    /\ cur = 0
    /\ mongo' = "failed"
    /\ mqtt' = "connecting"
    /\ phase' = "running"
    /\ UNCHANGED <<inserts, env, exitCode, collection, subscribed, closing,
                   lastSavedByKey, clock, inv, cur>>

\* mongoClient.connect() rejects; the IIFE's catch exits with status 1
MongoConnectFailed ==
    /\ phase = "starting"
    /\ cur = 0
    /\ mongo' = "failed"
    /\ phase' = "exited"
    /\ exitCode' = 1
    /\ UNCHANGED <<inserts, env, collection, mqtt, subscribed, closing,
                   lastSavedByKey, clock, inv, cur>>

\* client.on("connect"): subscribe; the callback reports an error or the grant
MqttConnect ==
    /\ phase = "running"
    /\ mqtt = "connecting"
    /\ cur = 0
    /\ mqtt' = "connected"
    /\ \E ok \in BOOLEAN : subscribed' = ok
    /\ UNCHANGED <<mongo, inserts, env, phase, exitCode, collection, closing,
                   lastSavedByKey, clock, inv, cur>>

\* the client emits "message": a new invocation of the async handler starts
Message(topic, raw) ==
    /\ phase = "running"
    /\ subscribed
    /\ cur = 0
    /\ Len(inv) < MaxMsgs
    /\ inv' = Append(inv, [topic |-> topic, raw |-> raw, now |-> 0,
                           last |-> 0, pc |-> "gate", outcome |-> "none",
                           log |-> "none", committed |-> FALSE,
                           wrote |-> FALSE])
    /\ cur' = Len(inv) + 1
    /\ UNCHANGED <<mongo, inserts, env, phase, exitCode, collection, mqtt,
                   subscribed, closing, lastSavedByKey, clock>>

\* variant: an await between the gate check and the commit
GateCheckYields(i) ==
    /\ Alive
    /\ cur = i
    /\ inv[i].pc = "gate"
    /\ LET k == ThrottleKey(inv[i].topic)
           last == LastOrZero(lastSavedByKey, k)
       IN  IF Throttled(clock, last, minIntervalMs)
             THEN inv' = [inv EXCEPT ![i].now = clock, ![i].last = last,
                                     ![i].pc = "done",
                                     ![i].outcome = "dropped-throttled"]
             ELSE inv' = [inv EXCEPT ![i].now = clock, ![i].last = last,
                                     ![i].pc = "decode"]
    /\ cur' = 0
    /\ UNCHANGED <<mongo, inserts, env, phase, exitCode, collection, mqtt,
                   subscribed, closing, lastSavedByKey, clock>>

\* variant: the map is stamped before the gate decision
GateCheckMarksAlways(i) ==
    /\ Alive
    /\ cur = i
    /\ inv[i].pc = "gate"
    /\ LET k == ThrottleKey(inv[i].topic)
           last == LastOrZero(lastSavedByKey, k)
       IN  /\ lastSavedByKey' = [lastSavedByKey EXCEPT ![k] = clock]
           /\ IF Throttled(clock, last, minIntervalMs)
                THEN /\ inv' = [inv EXCEPT ![i].now = clock,
                                           ![i].last = last,
                                           ![i].pc = "done",
                                           ![i].outcome = "dropped-throttled"]
                     /\ cur' = 0
                ELSE /\ inv' = [inv EXCEPT ![i].now = clock,
                                           ![i].last = last,
                                           ![i].pc = "decode"]
                     /\ cur' = cur
    /\ UNCHANGED <<mongo, inserts, env, phase, exitCode, collection, mqtt,
                   subscribed, closing, clock>>

\* variant: the map is stamped as soon as the gate passes, before the parse
\* (the first revision's order, src/index.js:79-85)
GateCheckCommitsOnPass(i) ==
    /\ Alive
    /\ cur = i
    /\ inv[i].pc = "gate"
    /\ LET k == ThrottleKey(inv[i].topic)
           last == LastOrZero(lastSavedByKey, k)
       IN  IF Throttled(clock, last, minIntervalMs)
             THEN /\ inv' = [inv EXCEPT ![i].now = clock, ![i].last = last,
                                        ![i].pc = "done",
                                        ![i].outcome = "dropped-throttled"]
                  /\ cur' = 0
                  /\ lastSavedByKey' = lastSavedByKey
             ELSE /\ inv' = [inv EXCEPT ![i].now = clock, ![i].last = last,
                                        ![i].pc = "decode"]
                  /\ cur' = cur
                  /\ lastSavedByKey' = [lastSavedByKey EXCEPT ![k] = clock]
    /\ UNCHANGED <<mongo, inserts, env, phase, exitCode, collection, mqtt,
                   subscribed, closing, clock>>

\* now = Date.now(); last = get(key) || 0; if (now - last < min) return
GateCheck(i) ==
    /\ Alive
    /\ cur = i
    /\ inv[i].pc = "gate"
    /\ LET k == ThrottleKey(inv[i].topic)
           last == LastOrZero(lastSavedByKey, k)
       IN  IF Throttled(clock, last, minIntervalMs)
             THEN /\ inv' = [inv EXCEPT ![i].now = clock, ![i].last = last,
                                        ![i].pc = "done",
                                        ![i].outcome = "dropped-throttled"]
                  /\ cur' = 0
             ELSE /\ inv' = [inv EXCEPT ![i].now = clock, ![i].last = last,
                                        ![i].pc = "decode"]
                  /\ cur' = cur
    /\ UNCHANGED <<mongo, inserts, env, phase, exitCode, collection, mqtt,
                   subscribed, closing, lastSavedByKey, clock>>

\* raw = message.toString(); try { JSON.parse(raw) } catch { log; return }
Decode(i) ==
    /\ Alive
    /\ cur = i
    /\ inv[i].pc = "decode"
    /\ IF ParsesAsJSON(inv[i].raw)
         THEN /\ inv' = [inv EXCEPT ![i].pc = "commit"]
              /\ cur' = cur
         ELSE /\ inv' = [inv EXCEPT ![i].pc = "done",
                                    ![i].outcome = "dropped-malformed",
                                    ![i].log = "invalid-json"]
              /\ cur' = 0
    /\ UNCHANGED <<mongo, inserts, env, phase, exitCode, collection, mqtt,
                   subscribed, closing, lastSavedByKey, clock>>

\* variant: the write is dispatched without stamping the map first
CommitAfterWrite(i) ==
    /\ Alive
    /\ cur = i
    /\ inv[i].pc = "commit"
    /\ IF collection
         THEN /\ inv' = [inv EXCEPT ![i].pc = "await", ![i].committed = TRUE,
                                    ![i].wrote = TRUE]
              /\ inserts' = [inserts EXCEPT ![inv[i].topic] = @ + 1]
         ELSE /\ inv' = [inv EXCEPT ![i].pc = "done", ![i].committed = TRUE,
                                    ![i].outcome = "persist-failed",
                                    ![i].log = "error"]
              /\ inserts' = inserts
    /\ cur' = 0
    /\ UNCHANGED <<mongo, env, phase, exitCode, collection, mqtt, subscribed,
                   closing, lastSavedByKey, clock>>

\* lastSavedByKey.set(key, now); build doc; await collection.insertOne(doc)
\* (a missing collection throws into the outer catch)
Commit(i) ==
    /\ Alive
    /\ cur = i
    /\ inv[i].pc = "commit"
    /\ lastSavedByKey' =
         [lastSavedByKey EXCEPT ![ThrottleKey(inv[i].topic)] = inv[i].now]
    /\ IF collection
         THEN /\ inv' = [inv EXCEPT ![i].pc = "await", ![i].committed = TRUE,
                                    ![i].wrote = TRUE]
              /\ inserts' = [inserts EXCEPT ![inv[i].topic] = @ + 1]
         ELSE /\ inv' = [inv EXCEPT ![i].pc = "done", ![i].committed = TRUE,
                                    ![i].outcome = "persist-failed",
                                    ![i].log = "error"]
              /\ inserts' = inserts
    /\ cur' = 0
    /\ UNCHANGED <<mongo, env, phase, exitCode, collection, mqtt, subscribed,
                   closing, clock>>

\* insertOne resolves: console.log("Saved reading ...")
InsertOk(i) ==
    /\ Alive
    /\ cur = 0
    /\ i \in 1..Len(inv)
    /\ inv[i].pc = "await"
    /\ inv' = [inv EXCEPT ![i].pc = "done", ![i].outcome = "persisted",
                          ![i].log = "saved"]
    /\ UNCHANGED <<mongo, inserts, env, phase, exitCode, collection, mqtt,
                   subscribed, closing, lastSavedByKey, clock, cur>>

\* variant: the catch deletes the key's entry again
InsertFailRollsBack(i) ==
    /\ Alive
    /\ cur = 0
    /\ i \in 1..Len(inv)
    /\ inv[i].pc = "await"
    /\ inv' = [inv EXCEPT ![i].pc = "done", ![i].outcome = "persist-failed",
                          ![i].log = "error"]
    /\ lastSavedByKey' =
         [lastSavedByKey EXCEPT ![ThrottleKey(inv[i].topic)] = Absent]
    /\ UNCHANGED <<mongo, inserts, env, phase, exitCode, collection, mqtt,
                   subscribed, closing, clock, cur>>

\* variant: the catch issues the insert again
InsertFailRetries(i) ==
    /\ Alive
    /\ cur = 0
    /\ i \in 1..Len(inv)
    /\ inv[i].pc = "await"
    /\ inv' = [inv EXCEPT ![i].log = "error"]
    /\ inserts' = [inserts EXCEPT ![inv[i].topic] = @ + 1]
    /\ UNCHANGED <<mongo, env, phase, exitCode, collection, mqtt, subscribed,
                   closing, lastSavedByKey, clock, cur>>

\* insertOne rejects: catch (err) console.error("Error processing message")
InsertFail(i) ==
    /\ Alive
    /\ cur = 0
    /\ i \in 1..Len(inv)
    /\ inv[i].pc = "await"
    /\ inv' = [inv EXCEPT ![i].pc = "done", ![i].outcome = "persist-failed",
                          ![i].log = "error"]
    /\ UNCHANGED <<mongo, inserts, env, phase, exitCode, collection, mqtt,
                   subscribed, closing, lastSavedByKey, clock, cur>>

\* SIGINT / SIGTERM: shutdown() logs and starts `await mongoClient.close()`
Signal ==
    /\ phase \in {"starting", "running"}
    /\ cur = 0
    /\ closing' = TRUE
    /\ UNCHANGED <<mongo, inserts, env, phase, exitCode, collection, mqtt,
                   subscribed, lastSavedByKey, clock, inv, cur>>

\* mongoClient.close() settles (resolved or caught); process.exit(0)
CloseSettled ==
    /\ Alive
    /\ closing
    /\ cur = 0
    /\ phase' = "exited"
    /\ exitCode' = 0
    /\ UNCHANGED <<mongo, inserts, env, collection, mqtt, subscribed, closing,
                   lastSavedByKey, clock, inv, cur>>

Next ==
    \/ Tick
    \/ Boot
    \/ MongoConnected
    \/ MongoConnectFailed
    \/ MqttConnect
    \/ \E t \in Topics, r \in RawBodies : Message(t, r)
    \/ \E i \in 1..Len(inv) : GateCheck(i)
    \/ \E i \in 1..Len(inv) : Decode(i)
    \/ \E i \in 1..Len(inv) : Commit(i)
    \/ \E i \in 1..Len(inv) : InsertOk(i)
    \/ \E i \in 1..Len(inv) : InsertFail(i)
    \/ Signal
    \/ CloseSettled

Spec == Init /\ [][Next]_vars

\* ------------------------------------------------- history of the handler
Ids == 1..Len(inv)
Max(S) == CHOOSE x \in S : \A y \in S : y <= x

Decided(i) == inv[i].pc # "gate"
Valid(i) == ParsesAsJSON(inv[i].raw)
Rejected(i) == inv[i].outcome = "dropped-throttled"
Accepted(i) == inv[i].committed
Settled(i) == inv[i].pc \in {"await", "done"}
InFlight(i) == inv[i].pc = "await"

\* earlier accepted messages for the same key, in arrival order
PrevAccepts(i) == {j \in 1..(i - 1) : inv[j].topic = inv[i].topic /\ Accepted(j)}
PrevTime(i) == inv[Max(PrevAccepts(i))].now
AcceptsOf(k) == {j \in Ids : inv[j].topic = k /\ Accepted(j)}

\* ------------------------------------------------------------------ claims

\* C1: with t1 the time of the most recent accepted message for the key and
\* t1 < t2, a valid message at t2 is rejected without a write when
\* t2 - t1 < minInterval and accepted with a write when t2 - t1 >= minInterval;
\* no two accepted messages of one key are less than minInterval apart.
C1_ThrottleWindow ==
    /\ \A i \in Ids :
         (Decided(i) /\ Valid(i) /\ PrevAccepts(i) # {}
                     /\ PrevTime(i) < inv[i].now) =>
           /\ (inv[i].now - PrevTime(i) < minIntervalMs) =>
                (Rejected(i) /\ ~inv[i].wrote /\ ~Accepted(i))
           /\ (inv[i].now - PrevTime(i) >= minIntervalMs) =>
                (~Rejected(i) /\ (Settled(i) => Accepted(i) /\ inv[i].wrote))
    /\ \A i, j \in Ids :
         (i < j /\ inv[i].topic = inv[j].topic /\ Accepted(i) /\ Accepted(j))
           => inv[j].now - inv[i].now >= minIntervalMs

C1_Witness ==
    /\ minIntervalMs > 0
    /\ \E i \in Ids :
         /\ Valid(i) /\ PrevAccepts(i) # {} /\ PrevTime(i) < inv[i].now
         /\ inv[i].now - PrevTime(i) < minIntervalMs
         /\ Rejected(i) /\ ~inv[i].wrote
         /\ inv[Max(PrevAccepts(i))].wrote

\* C2: the first valid message for a key (no earlier accept for it) is
\* accepted whatever the current time and the configured interval.
C2_FirstAlwaysAccepted ==
    \A i \in Ids :
      (Decided(i) /\ Valid(i) /\ PrevAccepts(i) = {}) => ~Rejected(i)

\* C3: the map entry is stamped before the write is dispatched: while a
\* write is in flight every later message for its key that arrives less
\* than minInterval after the commit is rejected, and two in-flight writes of
\* one key are never less than minInterval apart.
C3_CommitBeforeWrite ==
    /\ \A i \in Ids : inv[i].wrote => Accepted(i)
    /\ \A i \in Ids : InFlight(i) =>
         /\ lastSavedByKey[inv[i].topic] # Absent
         /\ lastSavedByKey[inv[i].topic] >= inv[i].now
         /\ \A j \in Ids :
              (i < j /\ inv[j].topic = inv[i].topic /\ Decided(j)
                     /\ inv[j].now - inv[i].now < minIntervalMs)
                => Rejected(j)
    /\ \A i, j \in Ids :
         (i < j /\ inv[i].topic = inv[j].topic /\ InFlight(i) /\ InFlight(j))
           => inv[j].now - inv[i].now >= minIntervalMs

C3_Witness ==
    \E i, j \in Ids :
      /\ i < j /\ inv[j].topic = inv[i].topic
      /\ InFlight(i) /\ Valid(j) /\ Rejected(j)
      /\ inv[j].now - inv[i].now < minIntervalMs

\* C4: gate check and commit of one key are never interleaved: no two
\* invocations of a key are both past the gate and not yet committed, and a
\* message is judged only after every earlier message of its key has been
\* judged and, if accepted, committed.
C4_GateCommitAtomic ==
    /\ \A i, j \in Ids :
         (i # j /\ inv[i].topic = inv[j].topic)
           => ~(inv[i].pc \in {"decode", "commit"}
                /\ inv[j].pc \in {"decode", "commit"})
    /\ \A i, j \in Ids :
         (i < j /\ inv[i].topic = inv[j].topic /\ Decided(j))
           => (Settled(i) /\ inv[i].now <= inv[j].now)

C4_Witness ==
    \E i, j \in Ids :
      /\ i < j /\ inv[i].topic = inv[j].topic
      /\ InFlight(i) /\ inv[j].pc \in {"decode", "commit"}

\* C5: the map entry of a key and the decision on a message of that key are
\* functions of the messages of that key alone: messages of another key
\* neither change the entry nor the decision.
C5_CrossKeyIndependence ==
    /\ \A k \in Topics :
         lastSavedByKey[k] =
           IF AcceptsOf(k) = {} THEN Absent ELSE inv[Max(AcceptsOf(k))].now
    /\ \A i \in Ids : Decided(i) =>
         (Rejected(i) <=>
            (inv[i].now - (IF PrevAccepts(i) = {} THEN 0 ELSE PrevTime(i))
               < minIntervalMs))

C5_Witness ==
    \E i, j \in Ids :
      /\ i < j /\ inv[i].topic # inv[j].topic
      /\ Accepted(i) /\ Accepted(j)
      /\ inv[j].now - inv[i].now < minIntervalMs
      /\ lastSavedByKey[inv[i].topic] = inv[i].now

\* C6: a step that rejects a message leaves the whole map as it was, and a
\* rejected message has neither committed nor written.
C6_RejectKeepsMap ==
    [][\A i \in Ids :
         (inv[i].pc = "gate" /\ inv'[i].outcome = "dropped-throttled")
           => /\ lastSavedByKey' = lastSavedByKey
              /\ ~inv'[i].committed
              /\ ~inv'[i].wrote]_vars

C6_Witness ==
    \E i, j \in Ids :
      /\ i < j /\ inv[i].topic = inv[j].topic
      /\ Accepted(i) /\ Rejected(j)
      /\ lastSavedByKey[inv[i].topic] = inv[i].now
      /\ clock >= inv[i].now + minIntervalMs

\* C7: no step of the handler of an undecodable message changes the map or
\* dispatches a write or ends the process, and the handler gives the stack
\* back when it is done.
C7_MalformedKeepsMap ==
    [][\A i \in Ids :
         (~Valid(i) /\ (cur = i \/ inv'[i] # inv[i]))
           => /\ lastSavedByKey' = lastSavedByKey
              /\ ~inv'[i].wrote /\ ~inv'[i].committed
              /\ phase' = phase
              /\ (inv'[i].pc = "done" => cur' = 0)]_vars

C7_Witness ==
    \E i, j \in Ids :
      /\ i < j /\ inv[i].topic = inv[j].topic
      /\ ~Valid(i) /\ inv[i].outcome = "dropped-malformed"
      /\ Valid(j) /\ Accepted(j) /\ inv[j].now = inv[i].now
      /\ minIntervalMs > 0

\* C8: every message whose bytes fail to decode ends as dropped-malformed
\* with the decode failure logged, whatever the throttle state of its key.
C8_MalformedAlwaysLogged ==
    \A i \in Ids :
      (~Valid(i) /\ inv[i].pc = "done")
        => (inv[i].outcome = "dropped-malformed" /\ inv[i].log = "invalid-json")

\* C9: with minInterval = 0 every valid message is accepted and gets a
\* write, also when several share one arrival timestamp.
C9_ZeroIntervalAcceptsAll ==
    (phase # "boot" /\ minIntervalMs = 0) =>
      \A i \in Ids :
        (Valid(i) /\ Decided(i)) =>
          /\ ~Rejected(i)
          /\ Settled(i) => (Accepted(i) /\ inv[i].wrote)

C9_Witness ==
    /\ minIntervalMs = 0
    /\ Len(inv) >= 2
    /\ \A i \in Ids :
         /\ Valid(i) /\ inv[i].wrote
         /\ inv[i].topic = inv[1].topic /\ inv[i].now = inv[1].now

\* C10: a failed insert is logged and leaves the commit in place: the key's
\* entry is still the time of its latest accepted message, and later
\* messages of the key within minInterval of the failed one are rejected.
C10_FailedWriteKeepsCommit ==
    \A i \in Ids :
      inv[i].outcome = "persist-failed" =>
        /\ inv[i].log = "error"
        /\ Accepted(i)
        /\ lastSavedByKey[inv[i].topic] = inv[Max(AcceptsOf(inv[i].topic))].now
        /\ \A j \in Ids :
             (i < j /\ inv[j].topic = inv[i].topic /\ Decided(j)
                    /\ inv[j].now - inv[i].now < minIntervalMs)
               => Rejected(j)

C10_Witness ==
    \E i, j \in Ids :
      /\ i < j /\ inv[j].topic = inv[i].topic
      /\ inv[i].outcome = "persist-failed" /\ inv[i].wrote
      /\ Valid(j) /\ Rejected(j)
      /\ inv[j].now - inv[i].now < minIntervalMs

\* C11: the transport is connected, subscribed and delivering messages only
\* after the sink connection has completed: whenever the MQTT client exists,
\* a subscription is held or a handler has run, the collection handle is set.
C11_SinkBeforeTransport ==
    (mqtt # "none" \/ subscribed \/ Len(inv) > 0 \/ cur # 0)
      => (collection /\ mongo = "connected")

C11_Witness ==
    /\ cur # 0 /\ inv[cur].pc = "commit"
    /\ collection /\ subscribed

\* C12: a failed sink connection ends the process with status 1 before any
\* transport connection or subscription, and no message is ever handled.
C12_SinkFailureExits ==
    mongo = "failed" =>
      /\ phase = "exited" /\ exitCode = 1
      /\ mqtt = "none" /\ ~subscribed /\ ~collection
      /\ inv = <<>> /\ cur = 0

C12_Witness ==
    /\ mongo = "failed" /\ phase = "exited" /\ exitCode = 1
    /\ ~env.othersMissing /\ env.interval = "1"

\* C13: once a termination signal is received, the sink is not closed while
\* a write dispatched earlier is still pending.
C13_CloseAfterWritesSettle ==
    [][(~closing /\ closing') => \A i \in Ids : ~InFlight(i)]_vars

\* C14: after a termination signal no message commits to the throttle map or
\* dispatches a write.
C14_SignalStopsIntake ==
    [][closing => (lastSavedByKey' = lastSavedByKey /\ inserts' = inserts)]_vars

\* C15: when the process has exited, every write that was dispatched has
\* its success or failure log entry.
C15_NoWriteAbandoned ==
    phase = "exited" =>
      \A i \in Ids : inv[i].wrote => inv[i].log \in {"saved", "error"}

\* C16: with a required setting missing or an interval that is not a
\* non-negative finite number the process exits with status 1 and neither
\* the sink nor the transport connection is attempted.
C16_ConfigErrorFatal ==
    (env.othersMissing \/ env.interval \in {"", "abc", "Infinity", "-1"}) =>
      /\ phase \in {"boot", "exited"}
      /\ phase = "exited" => exitCode = 1
      /\ mongo = "idle" /\ mqtt = "none"
      /\ ~collection /\ ~subscribed /\ inv = <<>>

C16_Witness ==
    /\ phase = "exited" /\ exitCode = 1
    /\ ~env.othersMissing /\ env.interval = "abc"
    /\ mongo = "idle" /\ mqtt = "none"

\* C17: the inserts dispatched for a key are exactly its commits: one per
\* accepted message, none re-issued after a failure, none for a throttled
\* or undecodable message.
C17_OneInsertPerCommit ==
    /\ \A k \in Topics : inserts[k] = Cardinality(AcceptsOf(k))
    /\ \A i \in Ids :
         /\ inv[i].wrote <=> (Accepted(i) /\ Settled(i))
         /\ inv[i].outcome \in {"dropped-throttled", "dropped-malformed"}
              => (~inv[i].wrote /\ ~Accepted(i))

C17_Witness ==
    \E i, j \in Ids :
      /\ i < j /\ inv[i].topic = inv[j].topic
      /\ inv[i].outcome = "persist-failed" /\ inv[i].wrote
      /\ inv[j].outcome \in {"dropped-throttled", "dropped-malformed"}
      /\ inserts[inv[i].topic] = 1

C19_ThrottleMapInvariant ==
    /\ [](\A k \in Topics :
            lastSavedByKey[k] # Absent =>
              /\ AcceptsOf(k) # {}
              /\ lastSavedByKey[k] = inv[Max(AcceptsOf(k))].now
              /\ lastSavedByKey[k] <= clock)
    /\ [][\A k \in Topics :
            /\ lastSavedByKey'[k] >= lastSavedByKey[k]
            /\ lastSavedByKey'[k] # lastSavedByKey[k] =>
                 \E i \in Ids :
                   /\ inv[i].topic = k
                   /\ ~inv[i].committed /\ inv'[i].committed
                   /\ lastSavedByKey'[k] = inv'[i].now]_vars

C19_Witness ==
    \E k \in Topics :
      /\ Cardinality(AcceptsOf(k)) >= 2
      /\ lastSavedByKey[k] = inv[Max(AcceptsOf(k))].now
      /\ lastSavedByKey[k] > inv[1].now
      /\ lastSavedByKey[k] < clock

====
